---- MODULE Spec2Model ----
(***************************************************************************)
(* Model of pybind11_generics::List<T> (include/pybind11_generics/list.h): *)
(* a typed view over a Python list handle.  The state is the interpreter's *)
(* heap of container objects, its pending-error indicator, the views that  *)
(* wrap handles, the range-for loops running over views, the last composed *)
(* type name and the outcome of the last operation.                        *)
(***************************************************************************)
EXTENDS Integers, Sequences, FiniteSets, TLC

\* Longest list the model grows.
MaxLen == 3
\* Width in bits of size_t / ssize_t in the model.
IndexBits == 3
\* Deepest nesting List<List<...>> whose name is composed.
MaxDepth == 3

VARIABLES heap, views, pyerr, res, loops, sig

vars == <<heap, views, pyerr, res, loops, sig>>

----------------------------------------------------------------------------
\* Dynamic values.  Every handle is a string: the null handle, the name of a
\* container object of the heap, or an immediate Python int or str.  Native
\* (C++) values are strings too: "1", "2" of type int, "x" of std::string.

NULL == "NULL"
Garbage == "garbage"

IntElems == {"int:1", "int:2"}
StrElems == {"str:x"}
Elems == IntElems \cup StrElems

ObjIds == {"a", "t", "c"}
ViewIds == {"v1", "v2"}
LoopIds == {"l1", "l2"}
ElemTypes == {"int", "std::string"}
BaseTypes == {"int", "std::string", "double"}

Handles == {NULL} \cup ObjIds \cup Elems

\* Py_TYPE(h)
TypeOf(h) ==
    IF h = NULL THEN "null"
    ELSE IF h \in ObjIds THEN heap[h].type
    ELSE IF h \in IntElems THEN "int"
    ELSE IF h \in StrElems THEN "str"
    ELSE "garbage"

NativeVals(T) == IF T = "int" THEN {"1", "2"} ELSE {"x"}

----------------------------------------------------------------------------
\* The casting layer: native value <-> handle.

\* detail::object_or_cast(T &&): the Python object made from a native value.
to_handle(T, v) ==
    IF T = "int" THEN (CASE v = "1" -> "int:1" [] v = "2" -> "int:2")
    ELSE (CASE v = "x" -> "str:x")

\* cast_from_handle<T> succeeds when the object's dynamic type is the one T
\* converts from.
cast_ok(h, T) ==
    \/ T = "int" /\ TypeOf(h) = "int"
    \/ T = "std::string" /\ TypeOf(h) = "str"

\* cast_from_handle<T>: the native value of a handle that converts.
cast_from_handle(h, T) ==
    IF T = "int" THEN (CASE h = "int:1" -> "1" [] h = "int:2" -> "2")
    ELSE (CASE h = "str:x" -> "x")

----------------------------------------------------------------------------
\* CPython list primitives as called from list.h.

Pow2(n) == 2 ^ n

\* static_cast<ssize_t>(index): two's complement reinterpretation.
ToSsize(index) ==
    IF index >= Pow2(IndexBits - 1) THEN index - Pow2(IndexBits) ELSE index

\* A PyList_GetItem that counts a negative index from the end.
PyList_GetItem_FromEnd(items, i) ==
    IF i >= Len(items) \/ i < 0 - Len(items) THEN NULL
    ELSE IF i < 0 THEN items[Len(items) + i + 1] ELSE items[i + 1]

\* A PyList_GetItem that is one position off.
PyList_GetItem_OffByOne(items, i) ==
    IF i < 0 \/ i >= Len(items) THEN NULL ELSE items[IF i = 0 THEN Len(items) ELSE i]

\* PyList_GetItem: NULL (IndexError pending) when i is out of range, else the
\* borrowed item.
PyList_GetItem(items, i) ==
    IF i < 0 \/ i >= Len(items) THEN NULL ELSE items[i + 1]

PyList_Check(h) == TypeOf(h) = "list"

\* A check_ that also looks at the elements.
check_Deep(T, h) ==
    /\ h # NULL
    /\ PyList_Check(h)
    /\ \A i \in 1..Len(heap[h].items) : cast_ok(heap[h].items[i], T)

\* List<T>::check_, inherited from py::list.
check_(T, h) == h # NULL /\ PyList_Check(h)

\* A PyList_Append that inserts at the front.
PyList_Append_Front(items, h) == <<h>> \o items

\* PyList_Append when it succeeds: the item goes after the last one.
PyList_Append(items, h) == Append(items, h)

\* A begin() that skips the first item.
ListBegin_Skip(items) == IF Len(items) > 0 THEN 1 ELSE 0

\* An end() that stops one item early.
ListEnd_Short(items) == IF Len(items) > 0 THEN Len(items) - 1 ELSE 0

\* py::list::begin(): the base iterator at the first item.
ListBegin(items) == 0

\* py::list::end(): the base iterator at PyList_GET_SIZE.
ListEnd(items) == Len(items)

\* A constructor that always copies.
Borrowed_Copy(h, fresh) == fresh

\* The outer-shape conversion of the inherited constructors: a list handle
\* is borrowed as it is, any other sequence is copied into a new list.
Borrowed(h, fresh) == IF check_("-", h) THEN h ELSE fresh

----------------------------------------------------------------------------
\* Type names.  A type is the sequence of its constructors, outermost first:
\* <<"List", "List", "int">> is List<List<int>>.

\* make_caster<T>::name() of the element types.
BaseName(b) ==
    CASE b = "int" -> "int"
      [] b = "std::string" -> "str"
      [] b = "double" -> "float"

RECURSIVE handle_type_name_Unclosed(_)
\* A name() that drops the closing bracket of inner lists.
handle_type_name_Unclosed(T) ==
    IF Head(T) = "List"
    THEN (IF Len(T) > 2
          THEN "List[" \o handle_type_name_Unclosed(Tail(T))
          ELSE "List[" \o BaseName(T[2]) \o "]")
    ELSE BaseName(Head(T))

RECURSIVE handle_type_name(_)
\* handle_type_name<List<T>>::name()
handle_type_name(T) ==
    IF Head(T) = "List"
    THEN "List[" \o handle_type_name(Tail(T)) \o "]"
    ELSE BaseName(Head(T))

RECURSIVE Wrapped(_, _)
Wrapped(d, b) == IF d = 0 THEN <<b>> ELSE <<"List">> \o Wrapped(d - 1, b)

Types == {Wrapped(d, b) : d \in 0..MaxDepth, b \in BaseTypes}

----------------------------------------------------------------------------
NoRes == [op |-> "none", view |-> NULL, obj |-> NULL, index |-> 0, arg |-> NULL,
          T |-> "-", outcome |-> "ok", perr |-> "none", value |-> NULL,
          primfail |-> FALSE, loop |-> NULL, appended |-> "-"]

NoLoop == [view |-> NULL, obj |-> NULL, T |-> "-", pos |-> 0, endpos |-> 0,
           yielded |-> <<>>, status |-> "idle", valid |-> TRUE]

InitHeap ==
    [o \in ObjIds |->
        IF o = "a" THEN [type |-> "list", items |-> <<>>]
        ELSE IF o = "t" THEN [type |-> "tuple", items |-> <<"int:1", "str:x">>]
        ELSE [type |-> "free", items |-> <<>>]]

NoView == [ptr |-> NULL, T |-> "-", from |-> NULL]

Init ==
    /\ heap = InitHeap
    /\ views = [v \in ViewIds |->
                  IF v = "v1" THEN [ptr |-> "a", T |-> "int", from |-> "a"]
                  ELSE NoView]
    /\ pyerr = "none"
    /\ res = NoRes
    /\ loops = [l \in LoopIds |-> NoLoop]
    /\ sig = [T |-> <<"int">>, name |-> "int"]

Live(v) == views[v].ptr # NULL

ItemsOf(v) == heap[views[v].ptr].items

\* The loops over obj hold pointers into its item array, which an append may
\* move.
Invalidate(obj) ==
    [l \in LoopIds |->
        IF loops[l].obj = obj /\ loops[l].status = "running"
        THEN [loops[l] EXCEPT !.valid = FALSE] ELSE loops[l]]

\* History: the value the call just before this one appended through view v.
JustAppended(v) ==
    IF res.op = "append" /\ res.view = v /\ res.outcome = "ok" /\ ~res.primfail
    THEN res.arg ELSE "-"

\* List<T>::operator[](size_t index) const
Get(v, index) ==
    /\ Live(v)
    /\ LET result == PyList_GetItem(ItemsOf(v), ToSsize(index))
           r0 == [NoRes EXCEPT !.op = "get", !.view = v, !.obj = views[v].ptr,
                               !.T = views[v].T, !.index = index,
                               !.appended = JustAppended(v)]
       IN  IF result = NULL
           THEN /\ res' = [r0 EXCEPT !.outcome = "error_already_set",
                                     !.perr = "IndexError"]
                /\ pyerr' = "none"
           ELSE IF cast_ok(result, views[v].T)
           THEN /\ res' = [r0 EXCEPT !.value = cast_from_handle(result, views[v].T)]
                /\ pyerr' = pyerr
           ELSE /\ res' = [r0 EXCEPT !.outcome = "cast_error"]
                /\ pyerr' = pyerr
    /\ UNCHANGED <<heap, views, loops, sig>>

\* List<T>::append(value_type &&val) const.  py::list::append discards the
\* result of PyList_Append: when the primitive fails (oom) the error stays
\* pending in the interpreter and the call returns.
ListAppend(v, val, oom) ==
    /\ Live(v)
    /\ Len(ItemsOf(v)) < MaxLen
    /\ LET obj == views[v].ptr
           h == to_handle(views[v].T, val)
           r0 == [NoRes EXCEPT !.op = "append", !.view = v, !.obj = obj,
                               !.T = views[v].T, !.arg = val, !.primfail = oom]
       IN  /\ res' = r0
           /\ IF oom
              THEN /\ pyerr' = "MemoryError"
                   /\ UNCHANGED <<heap, loops>>
              ELSE /\ heap' = [heap EXCEPT ![obj].items = PyList_Append(@, h)]
                   /\ loops' = Invalidate(obj)
                   /\ pyerr' = pyerr
    /\ UNCHANGED <<views, sig>>

\* Another holder of the same handle (an untyped py::list, Python code)
\* appends any object.
RawAppend(obj, h) ==
    /\ heap[obj].type = "list"
    /\ Len(heap[obj].items) < MaxLen
    /\ heap' = [heap EXCEPT ![obj].items = PyList_Append(@, h)]
    /\ loops' = Invalidate(obj)
    /\ res' = [NoRes EXCEPT !.op = "raw_append", !.obj = obj, !.arg = h]
    /\ UNCHANGED <<views, pyerr, sig>>

\* List<T>(const object &o): the inherited converting constructor.
Wrap(v, h, T) ==
    /\ ~Live(v)
    /\ heap[h].type # "free"
    /\ heap["c"].type = "free"
    /\ views' = [views EXCEPT ![v] = [ptr |-> Borrowed(h, "c"), T |-> T, from |-> h]]
    /\ heap' = IF Borrowed(h, "c") = "c"
               THEN [heap EXCEPT !["c"] = [type |-> "list", items |-> heap[h].items]]
               ELSE heap
    /\ res' = [NoRes EXCEPT !.op = "wrap", !.view = v, !.obj = Borrowed(h, "c"),
                            !.arg = h, !.T = T]
    /\ UNCHANGED <<pyerr, loops, sig>>

\* List<T>::check_(handle)
Matches(T, h) ==
    /\ res' = [NoRes EXCEPT !.op = "check_", !.arg = h, !.T = T,
                            !.value = IF check_(T, h) THEN "true" ELSE "false"]
    /\ UNCHANGED <<heap, views, pyerr, loops, sig>>

\* handle_type_name<T>::name() for a type T
Describe(T) ==
    /\ sig' = [T |-> T, name |-> handle_type_name(T)]
    /\ res' = [NoRes EXCEPT !.op = "name"]
    /\ UNCHANGED <<heap, views, pyerr, loops>>

----------------------------------------------------------------------------
\* for (auto it = view.begin(), e = view.end(); it != e; ++it) { *it }

\* begin() and end() of a view: a fresh pair of iterators.
Begin(l, v) ==
    /\ Live(v)
    /\ loops[l].status # "running"
    /\ loops' = [loops EXCEPT ![l] =
                   [view |-> v, obj |-> views[v].ptr, T |-> views[v].T,
                    pos |-> ListBegin(ItemsOf(v)), endpos |-> ListEnd(ItemsOf(v)),
                    yielded |-> <<>>, status |-> "running", valid |-> TRUE]]
    /\ res' = [NoRes EXCEPT !.op = "begin", !.loop = l]
    /\ UNCHANGED <<heap, views, pyerr, sig>>

\* One turn of the loop: the test it != e, then *it (the cast of the raw
\* item) and ++it.  An iterator whose list was appended to since begin()
\* points into storage that may have moved: what it reads is arbitrary.
Step(l) ==
    /\ loops[l].status = "running"
    /\ LET lp == loops[l]
           r0 == [NoRes EXCEPT !.op = "step", !.loop = l]
       IN  IF lp.pos = lp.endpos
           THEN /\ loops' = [loops EXCEPT ![l].status = "done"]
                /\ res' = r0
           ELSE \E raw \in (IF lp.valid THEN {heap[lp.obj].items[lp.pos + 1]}
                            ELSE Elems \cup {Garbage}) :
                  IF raw = Garbage
                  THEN /\ loops' = [loops EXCEPT ![l] = [NoLoop EXCEPT !.status = "undefined"]]
                       /\ res' = [r0 EXCEPT !.outcome = "undefined"]
                  ELSE IF cast_ok(raw, lp.T)
                  THEN /\ loops' = [loops EXCEPT
                                      ![l].yielded = Append(@, cast_from_handle(raw, lp.T)),
                                      ![l].pos = @ + 1]
                       /\ res' = r0
                  ELSE /\ loops' = [loops EXCEPT ![l].status = "failed"]
                       /\ res' = [r0 EXCEPT !.outcome = "cast_error"]
    /\ UNCHANGED <<heap, views, pyerr, sig>>

\* The consumer leaves the loop early (break): its iterators are destroyed.
Abandon(l) ==
    /\ loops[l].status = "running"
    /\ loops' = [loops EXCEPT ![l] = [NoLoop EXCEPT !.status = "abandoned"]]
    /\ res' = [NoRes EXCEPT !.op = "abandon", !.loop = l]
    /\ UNCHANGED <<heap, views, pyerr, sig>>

----------------------------------------------------------------------------
Indices == 0..(Pow2(IndexBits) - 1)

GetStep == \E v \in ViewIds, i \in Indices : Get(v, i)
AppendStep == \E v \in ViewIds, oom \in BOOLEAN :
                 \E val \in NativeVals(views[v].T) : ListAppend(v, val, oom)
RawAppendStep == \E obj \in ObjIds, h \in Elems : RawAppend(obj, h)
WrapStep == \E h \in ObjIds, T \in ElemTypes : Wrap("v2", h, T)
MatchesStep == \E T \in ElemTypes, h \in Handles : Matches(T, h)
DescribeStep == \E T \in Types : Describe(T)
BeginStep == \E l \in LoopIds, v \in ViewIds : Begin(l, v)
LoopStep == \E l \in LoopIds : Step(l)
AbandonStep == \E l \in LoopIds : Abandon(l)

\* Reads, appends and construction of views over shared handles.
Next == GetStep \/ AppendStep \/ RawAppendStep \/ WrapStep

Spec == Init /\ [][Next]_vars

\* The registry-facing side: type names and the shape check.
NextReg == DescribeStep \/ MatchesStep \/ RawAppendStep \/ GetStep

SpecReg == Init /\ [][NextReg]_vars

\* Iteration, with a second view of std::string over the same list.
InitIter ==
    /\ heap = InitHeap
    /\ views = [v \in ViewIds |->
                  IF v = "v1" THEN [ptr |-> "a", T |-> "int", from |-> "a"]
                  ELSE [ptr |-> "a", T |-> "std::string", from |-> "a"]]
    /\ pyerr = "none"
    /\ res = NoRes
    /\ loops = [l \in LoopIds |-> NoLoop]
    /\ sig = [T |-> <<"int">>, name |-> "int"]

NextIter == BeginStep \/ LoopStep \/ AbandonStep \/ RawAppendStep

SpecIter == InitIter /\ [][NextIter]_vars

----------------------------------------------------------------------------
\* Properties.

ValidIndex(r) == r.index < Len(heap[r.obj].items)

\* C1: indexed_get with an index outside [0, len) -- len itself, beyond it,
\* or so large that the signed cast is negative -- throws error_already_set
\* carrying the IndexError the interpreter raised, returns no value and
\* leaves every list as it was.
C1_OutOfRangeFails ==
    [][(res'.op = "get" /\ res'.index >= Len(heap[res'.obj].items))
         => /\ res'.outcome = "error_already_set"
            /\ res'.perr = "IndexError"
            /\ res'.value = NULL
            /\ heap' = heap]_vars

C1_Witness ==
    /\ res.op = "get"
    /\ res.index >= Pow2(IndexBits - 1)
    /\ Len(heap[res.obj].items) >= 2
    /\ res.outcome = "error_already_set"

\* C2: an indexed_get(len - 1) that directly follows a successful append(v)
\* through the same view returns a value equal to v.
C2_RoundTrip ==
    (res.op = "get" /\ res.appended # "-" /\ res.index = Len(heap[res.obj].items) - 1)
        => (res.outcome = "ok" /\ res.value = res.appended)

C2_Witness ==
    /\ res.op = "get"
    /\ res.appended = "2"
    /\ res.index = Len(heap[res.obj].items) - 1
    /\ res.index >= 1
    /\ heap[res.obj].items[1] # "int:2"
    /\ res.value = "2"

\* C3: indexed_get at a valid index returns the element stored at that very
\* index converted to T when the element converts, and throws the conversion
\* error exactly when it does not; no default value is returned.
C3_ValidIndex ==
    (res.op = "get" /\ ValidIndex(res))
        => LET e == heap[res.obj].items[res.index + 1]
           IN  IF cast_ok(e, res.T)
               THEN res.outcome = "ok" /\ res.value = cast_from_handle(e, res.T)
               ELSE res.outcome = "cast_error" /\ res.value = NULL

C3_Witness ==
    /\ res.op = "get"
    /\ res.index = 1
    /\ Len(heap[res.obj].items) >= 3
    /\ res.outcome = "cast_error"
    /\ cast_ok(heap[res.obj].items[1], res.T)
    /\ cast_ok(heap[res.obj].items[3], res.T)

Finished(lp) == lp.status \in {"done", "failed"}

\* C4: a loop over a view whose list is not appended to meanwhile yields the
\* elements in index order; it ends after exactly len elements when all
\* convert, and when the first element that does not convert is at index k
\* it has yielded the k elements before it and fails at k; begin() itself
\* never fails.
C4_IterationOrder ==
    /\ \A l \in LoopIds :
         LET lp == loops[l]
             items == heap[lp.obj].items
         IN  (lp.status \in {"running", "done", "failed"} /\ lp.valid) =>
               /\ Len(lp.yielded) = lp.pos
               /\ lp.pos <= lp.endpos
               /\ lp.endpos <= Len(items)
               /\ \A j \in 1..lp.pos :
                    cast_ok(items[j], lp.T)
                      /\ lp.yielded[j] = cast_from_handle(items[j], lp.T)
               /\ (lp.status = "running" => lp.endpos = Len(items))
               /\ (lp.status = "done" => lp.pos = lp.endpos)
               /\ (lp.status = "failed" =>
                     (lp.pos < lp.endpos /\ ~cast_ok(items[lp.pos + 1], lp.T)))
    /\ (res.op = "begin" => loops[res.loop].status = "running")

C4_Witness ==
    \E l \in LoopIds :
        /\ loops[l].status = "failed"
        /\ loops[l].valid
        /\ loops[l].T = "int"
        /\ loops[l].pos = 1
        /\ loops[l].endpos = 3
        /\ loops[l].yielded = <<"1">>
        /\ cast_ok(heap[loops[l].obj].items[3], "int")

\* C5: an append whose underlying PyList_Append fails does not return
\* normally.
C5_AppendFailureSurfaces ==
    (res.op = "append" /\ res.primfail) => res.outcome # "ok"

\* C6: a successful append makes the list one longer, with the appended value
\* last and every earlier element where it was; no other object changes.
C6_AppendAtEnd ==
    [][(res'.op = "append" /\ res'.outcome = "ok" /\ ~res'.primfail)
         => LET o == res'.obj
                before == heap[o].items
                after == heap'[o].items
            IN  /\ Len(after) = Len(before) + 1
                /\ after[Len(after)] = to_handle(res'.T, res'.arg)
                /\ \A i \in 1..Len(before) : after[i] = before[i]
                /\ \A p \in ObjIds \ {o} : heap'[p] = heap[p]]_vars

C6_Witness ==
    /\ res.op = "append"
    /\ ~res.primfail
    /\ Len(heap[res.obj].items) >= 3
    /\ heap[res.obj].items[Len(heap[res.obj].items)] = to_handle(res.T, res.arg)
    /\ heap[res.obj].items[1] # to_handle(res.T, res.arg)

RECURSIVE Rep(_, _)
Rep(s, n) == IF n = 0 THEN "" ELSE s \o Rep(s, n - 1)

\* C7: the name of a List nested d deep over a base type is d times "List[",
\* the base type's name, then d times "]".
C7_TypeName ==
    LET d == Len(sig.T) - 1
    IN  sig.name = Rep("List[", d) \o BaseName(sig.T[d + 1]) \o Rep("]", d)

C7_Witness ==
    /\ sig.T = <<"List", "List", "int">>
    /\ sig.name = "List[List[int]]"

\* C8: check_ is true exactly of the handles whose object is a list,
\* whatever T is and whatever the list holds.
C8_ShapeCheck ==
    res.op = "check_" =>
        /\ ((res.value = "true") <=> (TypeOf(res.arg) = "list"))
        /\ \A T \in ElemTypes : check_(T, res.arg) = check_(res.T, res.arg)

C8_Witness ==
    /\ res.op = "check_"
    /\ res.value = "true"
    /\ res.T = "int"
    /\ \E i \in 1..Len(heap[res.arg].items) : ~cast_ok(heap[res.arg].items[i], "int")

\* The iterators a begin()/end() call has just made are at index 0 and at the
\* current length with nothing yielded, and two finished loops over the same
\* list at the same length with the same T have the same outcome.
C9_State ==
    /\ (res.op = "begin" =>
          LET lp == loops[res.loop]
          IN  /\ lp.pos = 0
              /\ lp.endpos = Len(heap[lp.obj].items)
              /\ lp.yielded = <<>>)
    /\ \A l, m \in LoopIds :
         (/\ Finished(loops[l]) /\ Finished(loops[m])
          /\ loops[l].valid /\ loops[m].valid
          /\ loops[l].obj = loops[m].obj
          /\ loops[l].T = loops[m].T
          /\ loops[l].endpos = loops[m].endpos)
            => (loops[l].status = loops[m].status /\ loops[l].yielded = loops[m].yielded)

\* C9: begin() gives an iterator at index 0 and end() one at the current
\* length whatever the other loops did before (finished, failed, abandoned);
\* iterating changes no list; two full iterations with no append in between
\* yield the same outcomes.
C9_Restartable ==
    []C9_State /\ [][res'.op \in {"begin", "step", "abandon"} => heap' = heap]_vars

C9_Witness ==
    /\ res.op = "begin"
    /\ res.loop = "l2"
    /\ Len(heap["a"].items) >= 2
    /\ loops["l1"].status = "failed"
    /\ loops["l1"].pos = 1
    /\ loops["l1"].T = loops["l2"].T

SameList(v, w) ==
    /\ Live(v) /\ Live(w)
    /\ views[v].from = views[w].from
    /\ TypeOf(views[v].from) = "list"

\* C10: views made from the same list handle refer to the one list: they
\* have the same elements and length, an element appended through one is the
\* last element of the other, a view is made over a list whatever it holds,
\* and a read fails with the conversion error exactly at the indices whose
\* element does not convert.
C10_SharedList ==
    /\ \A v, w \in ViewIds : SameList(v, w) => ItemsOf(v) = ItemsOf(w)
    /\ ((res.op = "append" /\ res.outcome = "ok" /\ ~res.primfail) =>
          \A w \in ViewIds :
             SameList(res.view, w) =>
                PyList_GetItem(ItemsOf(w), Len(ItemsOf(res.view)) - 1)
                   = to_handle(res.T, res.arg))
    /\ ((res.op = "wrap" /\ TypeOf(res.arg) = "list") =>
          (res.outcome = "ok" /\ views[res.view].ptr = res.arg))
    /\ ((res.op = "get" /\ ValidIndex(res)) =>
          ((res.outcome = "cast_error")
             <=> ~cast_ok(heap[res.obj].items[res.index + 1], res.T)))

C10_Witness ==
    /\ res.op = "get"
    /\ res.view = "v1"
    /\ SameList("v1", "v2")
    /\ views["v2"].T = "std::string"
    /\ res.outcome = "cast_error"
    /\ Len(ItemsOf("v2")) >= 2
    /\ ItemsOf("v2")[1] = "int:1"
====
